---- MODULE Spec2Model ----
(***************************************************************************)
(* crayne-lang bytecode core: the Chunk builder (vm/chunk.rs), the         *)
(* constant pool (vm/value.rs), the disassembler (tools/disassembler.rs)   *)
(* and the interpreter loop VM::run (vm/mod.rs).                           *)
(*                                                                         *)
(* A chunk is built by write / add_constant calls starting from            *)
(* Chunk::new() or Chunk::test(); the finished chunk is then either run    *)
(* by the VM (one action per loop iteration) or disassembled (one action   *)
(* per chunk_body call).                                                   *)
(***************************************************************************)
EXTENDS Integers, Sequences, FiniteSets, TLC

VARIABLES
    chunk,      \* Chunk { code, constants, lines }
    origin,     \* which constructor made the chunk: "new" or "test"
    written,    \* history: the bytes given to write, in call order
    added,      \* history: the values given to add_constant, in call order
    lined,      \* history: the lines given to write, in call order
    pc,         \* "build", "run", "returned", "chunk_body", "disassembled";
                \* "call", "done" around a call of a function on its own
    ip,         \* VM::run: let mut ip
    result,     \* VM::run: let mut result
    stdout,     \* VM::run: the lines println! has written
    stderr,     \* VM::run: the values dbg! has written (debug builds only)
    trace,      \* cfg(debug_assertions): whether debug! expands to dbg!
    fetched,    \* history: the offsets run has passed to byte_at as opcodes
    name,       \* disassemble_chunk: the name argument
    offset,     \* chunk_body: the offset argument of the current call
    text,       \* disassemble_chunk: the string built so far
    walk,       \* history: the offsets chunk_body has disassembled at
    arg,        \* a call of a function on its own: the arguments
    ret         \* a call of a function on its own: what it returned

vars == <<chunk, origin, written, added, lined, pc, ip, result, stdout,
          stderr, trace, fetched, name, offset, text, walk, arg, ret>>

chunkVars == <<chunk, origin, written, added, lined>>
callVars  == <<arg, ret>>
vmVars    == <<ip, result, stdout, stderr, trace, fetched>>
disVars   == <<name, offset, text, walk>>

(***************************************************************************)
(* Bounds of the model and the input sets drawn from.                      *)
(***************************************************************************)
MaxCode  == 3      \* write calls per chunk
MaxConst == 2      \* add_constant calls per chunk
MaxPool  == 258    \* add_constant calls per chunk in PoolSpec
MaxChars == 3      \* characters per slice in SpanSpec

U8Max == 255       \* u8::max_value()

Bytes  == {0, 1, 2, U8Max}
Names  == {"test", "main"}

\* The source line given with the k-th write: each byte on a line of its own.
LineFor(k) == k

\* The lines LineSpec gives to write: line is a u32, 0 included.
Lines == {0, 1, 2}

(***************************************************************************)
(* vm/value.rs                                                             *)
(***************************************************************************)
ValueInt(i)       == <<"Int", i>>
DoesNotExist == <<"DoesNotExist">>

Values == {ValueInt(32), ValueInt(7)}

Digits == <<"0", "1", "2", "3", "4", "5", "6", "7", "8", "9">>

\* Decimal rendering of an unsigned integer ({} on u8, u32, usize).
RECURSIVE NatToStr(_)
NatToStr(n) ==
    IF n < 10 THEN Digits[n + 1]
    ELSE NatToStr(n \div 10) \o Digits[(n % 10) + 1]

\* Width w with fill c on the left ({:04} and {:4} on numbers).
RECURSIVE PadLeft(_, _, _)
PadLeft(s, w, c) == IF Len(s) >= w THEN s ELSE PadLeft(c \o s, w, c)

\* Width w, space-filled on the right ({:-16} on a string).
RECURSIVE PadRight(_, _)
PadRight(s, w) == IF Len(s) >= w THEN s ELSE PadRight(s \o " ", w)

\* impl fmt::Display for Value
Display(v) ==
    IF v[1] = "Int" THEN NatToStr(v[2]) ELSE "Constant does not exist"

\* ConstantPool::new
ConstantPoolNew == << >>

\* Mutant of ConstantPoolWrite: the value is put in front.
ConstantPoolWriteFront(pool, value) == <<value>> \o pool

\* ConstantPool::write
ConstantPoolWrite(pool, value) == Append(pool, value)

\* ConstantPool::get_const: self.0.get(index).cloned().unwrap_or(DoesNotExist)
get_const(pool, index) ==
    IF index < Len(pool) THEN pool[index + 1] ELSE DoesNotExist

(***************************************************************************)
(* vm/chunk.rs                                                             *)
(***************************************************************************)
OpReturn      == <<"Return">>
OpConstant    == <<"Constant">>
OpInvalid(b)  == <<"Invalid", b>>

\* Mutant of OpCodeFrom: the opcodes are numbered from 1.
OpCodeFromOne(byte) ==
    CASE byte = 1 -> OpReturn
      [] byte = 2 -> OpConstant
      [] OTHER    -> OpInvalid(byte)

\* impl From<u8> for OpCode
OpCodeFrom(byte) ==
    CASE byte = 0 -> OpReturn
      [] byte = 1 -> OpConstant
      [] OTHER    -> OpInvalid(byte)

\* Chunk::new
ChunkNew == [code |-> << >>, constants |-> ConstantPoolNew, lines |-> << >>]

\* Chunk::test
ChunkTest ==
    [code      |-> <<0, 1, 0>>,
     constants |-> ConstantPoolWrite(ConstantPoolNew, ValueInt(32)),
     lines     |-> <<1, 1, 1>>]

\* Mutant of write: the line is not recorded.
writeNoLine(c, byte, line) == [c EXCEPT !.code = Append(@, byte)]

\* Chunk::write
write(c, byte, line) ==
    [c EXCEPT !.code = Append(@, byte), !.lines = Append(@, line)]

\* Mutant of add_constant: the rest of the struct is taken from a new chunk
\* (..Chunk::new()), not from self.
add_constantFromNew(c, value) ==
    [ChunkNew EXCEPT !.constants = ConstantPoolWrite(c.constants, value)]

\* Chunk::add_constant
add_constant(c, value) ==
    [c EXCEPT !.constants = ConstantPoolWrite(@, value)]

\* Mutant of byte_at: out of range yields 0, not u8::max_value().
byte_atZero(c, o) == IF o < Len(c.code) THEN c.code[o + 1] ELSE 0

\* Chunk::byte_at: *self.code.get(offset).unwrap_or(&u8::max_value())
byte_at(c, o) == IF o < Len(c.code) THEN c.code[o + 1] ELSE U8Max

\* Chunk::const_val (index: u8, widened to usize)
const_val(c, index) == get_const(c.constants, index)

\* Chunk::read_const
read_const(c, o) == const_val(c, byte_at(c, o))

\* Mutant of get_line: out of range yields line 1, the first line.
get_lineOne(c, index) ==
    IF index < Len(c.lines) THEN c.lines[index + 1] ELSE 1

\* Chunk::get_line
get_line(c, index) == IF index < Len(c.lines) THEN c.lines[index + 1] ELSE 0

\* Chunk::size
size(c) == Len(c.code)

(***************************************************************************)
(* tools/disassembler.rs                                                   *)
(***************************************************************************)
\* chunk_header
chunk_header(n) == "== " \o n \o " =="

\* simple_instruction
simple_instruction(t, o) == <<t \o "\n", o + 1>>

\* Mutant of constant_instruction: the operand is read at the opcode's offset.
constant_instructionAtOpcode(t, c, o) ==
    LET constant == byte_at(c, o)
    IN  << PadRight(t, 16) \o " " \o PadLeft(NatToStr(constant), 4, " ")
             \o " '" \o Display(const_val(c, constant)) \o "'\n",
           o + 2 >>

\* constant_instruction
constant_instruction(t, c, o) ==
    LET constant == byte_at(c, o + 1)
    IN  << PadRight(t, 16) \o " " \o PadLeft(NatToStr(constant), 4, " ")
             \o " '" \o Display(const_val(c, constant)) \o "'\n",
           o + 2 >>

\* disassemble_instruction.  The second arm of the match is the bare
\* identifier `Constant`: only OpCode and Chunk are imported, so it is a
\* binding pattern that matches every opcode the first arm did not, and the
\* OpCode::Invalid arm after it is never taken.
disassemble_instruction(c, o) ==
    LET op == OpCodeFrom(byte_at(c, o))
        r  == IF op = OpReturn THEN simple_instruction("OP_RETURN", o)
              ELSE IF TRUE THEN constant_instruction("OP_CONSTANT", c, o)
              ELSE <<"Unknown opcode: " \o NatToStr(op[2]) \o "\n", o + 1>>
    IN  <<PadLeft(NatToStr(o), 4, "0") \o " " \o r[1], r[2]>>

(***************************************************************************)
(* vm/mod.rs                                                               *)
(***************************************************************************)
Ok            == <<"Ok">>
Err(e)        == <<"Err", e>>
CompileError  == <<"CompileError">>     \* unit variant: no payload
RuntimeError  == <<"RuntimeError">>     \* unit variant: no payload

(***************************************************************************)
(* Initial state: a freshly constructed chunk.                             *)
(***************************************************************************)
Init ==
    /\ origin \in {"new", "test"}
    /\ chunk = IF origin = "new" THEN ChunkNew ELSE ChunkTest
    /\ written = << >>
    /\ added = << >>
    /\ lined = << >>
    /\ pc = "build"
    /\ ip = 0
    /\ result = Ok
    /\ stdout = << >>
    /\ stderr = << >>
    /\ trace = FALSE
    /\ fetched = << >>
    /\ name = ""
    /\ offset = 0
    /\ text = ""
    /\ walk = << >>
    /\ arg = << >>
    /\ ret = << >>

(***************************************************************************)
(* Building the chunk.                                                     *)
(***************************************************************************)
\* chunk = chunk.write(byte, line)
Write(byte, line) ==
    /\ pc = "build"
    /\ chunk' = write(chunk, byte, line)
    /\ written' = Append(written, byte)
    /\ lined' = Append(lined, line)
    /\ UNCHANGED <<origin, added, pc, vmVars, disVars, callVars>>

\* chunk = chunk.add_constant(value)
AddConstant(value) ==
    /\ pc = "build"
    /\ chunk' = add_constant(chunk, value)
    /\ added' = Append(added, value)
    /\ UNCHANGED <<origin, written, lined, pc, vmVars, disVars, callVars>>

(***************************************************************************)
(* VM::run                                                                 *)
(***************************************************************************)
\* Entry of run: let mut ip = 0; let mut result = Ok(());
RunStart(t) ==
    /\ pc = "build"
    /\ pc' = "run"
    /\ trace' = t
    /\ ip' = 0
    /\ result' = Ok
    /\ UNCHANGED <<chunkVars, stdout, stderr, fetched, disVars, callVars>>

\* Mutant of ArmReturn: the break is missing, the loop goes on.
ArmReturnNoBreak ==
    /\ UNCHANGED <<pc, result, stdout>>

\* OpCode::Return => break
ArmReturn ==
    /\ pc' = "returned"
    /\ UNCHANGED <<result, stdout>>

\* OpCode::Constant => { let constant = read_const(ip + 1); println!(..) }
\* with ip already incremented past the opcode byte.
ArmConstant(ip1) ==
    /\ stdout' = Append(stdout, Display(read_const(chunk, ip1 + 1)))
    /\ UNCHANGED <<pc, result>>

\* Mutant of ArmInvalid: the break is missing, the loop goes on.
ArmInvalidNoBreak ==
    /\ result' = Err(CompileError)
    /\ UNCHANGED <<pc, stdout>>

\* Mutant of ArmInvalid: the other error variant is returned.
ArmInvalidRuntimeError ==
    /\ result' = Err(RuntimeError)
    /\ pc' = "returned"
    /\ UNCHANGED stdout

\* OpCode::Invalid(_) => { result = Err(VMError::CompileError); break; }
ArmInvalid ==
    /\ result' = Err(CompileError)
    /\ pc' = "returned"
    /\ UNCHANGED stdout

\* Mutant of RunStep: a traced run takes the next ip from the offset the
\* disassembler returns.
RunStepTraceMovesIp ==
    /\ pc = "run"
    /\ LET instruction == byte_at(chunk, ip)
           ip1         == IF trace
                          THEN disassemble_instruction(chunk, ip)[2]
                          ELSE ip + 1
           op          == OpCodeFrom(instruction)
       IN  /\ stderr' = IF trace
                        THEN Append(stderr, disassemble_instruction(chunk, ip))
                        ELSE stderr
           /\ fetched' = Append(fetched, ip)
           /\ ip' = ip1
           /\ CASE op = OpReturn   -> ArmReturn
                [] op = OpConstant -> ArmConstant(ip1)
                [] OTHER           -> ArmInvalid
    /\ UNCHANGED <<chunkVars, trace, disVars, callVars>>

\* The loop body of run as compiled without debug_assertions, where debug!
\* expands to identity(true) and its argument is never evaluated: a function
\* from the locals and output before an iteration to those after it.
LoopBody(c, s) ==
    LET instruction == byte_at(c, s.ip)
        ip1         == s.ip + 1
        op          == OpCodeFrom(instruction)
        t           == [s EXCEPT !.ip = ip1, !.fetched = Append(@, s.ip)]
    IN  CASE op = OpReturn   -> [t EXCEPT !.pc = "returned"]
          [] op = OpConstant ->
                [t EXCEPT !.stdout = Append(@, Display(read_const(c, ip1 + 1)))]
          [] OTHER           ->
                [t EXCEPT !.result = Err(CompileError), !.pc = "returned"]

\* run without debug_assertions after n iterations of its loop.
RECURSIVE RunAfter(_, _)
RunAfter(c, n) ==
    IF n = 0
    THEN [pc |-> "run", ip |-> 0, result |-> Ok, stdout |-> << >>,
          fetched |-> << >>]
    ELSE LoopBody(c, RunAfter(c, n - 1))

\* Mutant of RunStep: the Constant arm steps over its operand byte.
RunStepSkipsOperand ==
    /\ pc = "run"
    /\ LET instruction == byte_at(chunk, ip)
           op          == OpCodeFrom(instruction)
           ip1         == IF op = OpConstant THEN ip + 2 ELSE ip + 1
       IN  /\ stderr' = IF trace
                        THEN Append(stderr, disassemble_instruction(chunk, ip))
                        ELSE stderr
           /\ fetched' = Append(fetched, ip)
           /\ ip' = ip1
           /\ CASE op = OpReturn   -> ArmReturn
                [] op = OpConstant -> ArmConstant(ip1)
                [] OTHER           -> ArmInvalid
    /\ UNCHANGED <<chunkVars, trace, disVars, callVars>>

\* One iteration of the loop of run.
RunStep ==
    /\ pc = "run"
    /\ LET instruction == byte_at(chunk, ip)
           ip1         == ip + 1
           op          == OpCodeFrom(instruction)
       IN  /\ stderr' = IF trace
                        THEN Append(stderr, disassemble_instruction(chunk, ip))
                        ELSE stderr
           /\ fetched' = Append(fetched, ip)
           /\ ip' = ip1
           /\ CASE op = OpReturn   -> ArmReturn
                [] op = OpConstant -> ArmConstant(ip1)
                [] OTHER           -> ArmInvalid
    /\ UNCHANGED <<chunkVars, trace, disVars, callVars>>

(***************************************************************************)
(* disassemble_chunk                                                       *)
(***************************************************************************)
\* format!("{}\n{}", chunk_header(name), chunk_body(&chunk, 0)): the header
\* and the first call of chunk_body.
DisassembleStart(n) ==
    /\ pc = "build"
    /\ pc' = "chunk_body"
    /\ name' = n
    /\ offset' = 0
    /\ text' = chunk_header(n) \o "\n"
    /\ UNCHANGED <<chunkVars, vmVars, walk, callVars>>

\* One call of chunk_body.
ChunkBodyStep ==
    /\ pc = "chunk_body"
    /\ IF offset >= size(chunk)
       THEN /\ pc' = "disassembled"
            /\ UNCHANGED <<offset, text, walk>>
       ELSE LET d == disassemble_instruction(chunk, offset)
            IN  /\ text' = text \o d[1]
                /\ offset' = d[2]
                /\ walk' = Append(walk, offset)
                /\ UNCHANGED pc
    /\ UNCHANGED <<chunkVars, vmVars, name, callVars>>

\* The offsets the calls chunk_body(c, o), chunk_body(c, next_offset), ...
\* disassemble at, in order.
RECURSIVE chunk_body_offsets(_, _)
chunk_body_offsets(c, o) ==
    IF o >= size(c) THEN << >>
    ELSE <<o>> \o chunk_body_offsets(c, disassemble_instruction(c, o)[2])

(***************************************************************************)
(* Calls of single functions on arguments drawn from bounded sets.         *)
(***************************************************************************)
\* No chunk in the making, no run, no disassembly: only a call to be made.
CallInit(args) ==
    /\ origin = "new"
    /\ chunk = ChunkNew
    /\ written = << >>
    /\ added = << >>
    /\ lined = << >>
    /\ pc = "call"
    /\ ip = 0
    /\ result = Ok
    /\ stdout = << >>
    /\ stderr = << >>
    /\ trace = FALSE
    /\ fetched = << >>
    /\ name = ""
    /\ offset = 0
    /\ text = ""
    /\ walk = << >>
    /\ arg \in args
    /\ ret = << >>

\* OpCode::from(byte)
Decode ==
    /\ pc = "call"
    /\ ret' = OpCodeFrom(arg)
    /\ pc' = "done"
    /\ UNCHANGED <<chunkVars, vmVars, disVars, arg>>

\* Every u8 decoded once.
DecodeSpec == CallInit(0..U8Max) /\ [][Decode]_vars

(***************************************************************************)
(* parser/tokens.rs: Span and its InputTake implementation.  A slice is a  *)
(* &str, here the sequence of its UTF-8 bytes.                             *)
(***************************************************************************)
NewlineByte == 10  \* b'\n'

\* Span::new(input)
SpanNew(input) == [offset |-> 0, line |-> 1, column |-> 1, slice |-> input]

\* Span::new_at(input, offset, line, column)
SpanNewAt(input, o, l, c) ==
    [offset |-> o, line |-> l, column |-> c, slice |-> input]

\* A call that returned v, and a call that panicked.
Returns(v) == <<"ok", v>>
Panic      == <<"panic">>

\* str::is_char_boundary(index): the start, the end, or a byte that is not
\* a UTF-8 continuation byte (10xxxxxx).
is_char_boundary(s, index) ==
    \/ index = 0
    \/ index = Len(s)
    \/ index < Len(s) /\ s[index + 1] \notin 128..191

\* &s[..count] and &s[count..] panic unless count is a char boundary of s.
SliceTo(s, count)   == SubSeq(s, 1, count)
SliceFrom(s, count) == SubSeq(s, count + 1, Len(s))

\* bytecount::count(haystack, needle)
RECURSIVE bytecount_count(_, _)
bytecount_count(haystack, needle) ==
    IF haystack = << >> THEN 0
    ELSE (IF Head(haystack) = needle THEN 1 ELSE 0)
            + bytecount_count(Tail(haystack), needle)

\* memchr::memrchr(needle, haystack): the search runs from the end.
RECURSIVE memrchr(_, _)
memrchr(needle, haystack) ==
    IF haystack = << >> THEN <<"None">>
    ELSE IF haystack[Len(haystack)] = needle
         THEN <<"Some", Len(haystack) - 1>>
         ELSE memrchr(needle, SubSeq(haystack, 1, Len(haystack) - 1))

\* Span::take(count)
take(span, count) ==
    IF ~is_char_boundary(span.slice, count) THEN Panic
    ELSE Returns([span EXCEPT !.slice = SliceTo(span.slice, count)])

take_splitColumnAdds(span, count) ==
    IF ~is_char_boundary(span.slice, count) THEN Panic
    ELSE LET slice_a == SliceTo(span.slice, count)
             slice_b == SliceFrom(span.slice, count)
             lines   == bytecount_count(slice_a, NewlineByte)
         IN  Returns(<<[offset |-> span.offset + count,
                        line   |-> span.line + lines,
                        column |-> span.column + count,
                        slice  |-> slice_b],
                       [span EXCEPT !.slice = slice_a]>>)

\* Span::take_split(count): the remainder first, the prefix second.
take_split(span, count) ==
    IF ~is_char_boundary(span.slice, count) THEN Panic
    ELSE LET slice_a == SliceTo(span.slice, count)
             slice_b == SliceFrom(span.slice, count)
             lines   == bytecount_count(slice_a, NewlineByte)
             last    == memrchr(NewlineByte, slice_a)
         IN  IF lines # 0 /\ last = <<"None">> THEN Panic \* unreachable!()
             ELSE Returns(<<[offset |-> span.offset + count,
                             line   |-> span.line + lines,
                             column |-> IF lines = 0
                                        THEN span.column + count
                                        ELSE count - last[2],
                             slice  |-> slice_b],
                            [span EXCEPT !.slice = slice_a]>>)

\* The characters the slices are made of: "a", "\n" and the two-byte "é".
Chars == {<<97>>, <<NewlineByte>>, <<195, 169>>}

\* The strings of at most n characters of Chars.
RECURSIVE Strings(_)
Strings(n) ==
    IF n = 0 THEN {<< >>}
    ELSE Strings(n - 1) \cup {s \o c : s \in Strings(n - 1), c \in Chars}

\* Spans at the start of the input and further into it, and every count up
\* to one past the end of the slice.
SpanCalls ==
    {[span |-> SpanNewAt(s, p[1], p[2], p[3]), count |-> n, op |-> f] :
        s \in Strings(MaxChars), p \in {<<0, 1, 1>>, <<3, 1, 4>>, <<3, 2, 1>>},
        n \in 0..(MaxChars * 2 + 1), f \in {"take", "take_split"}}

Take ==
    /\ pc = "call"
    /\ arg.op = "take"
    /\ ret' = take(arg.span, arg.count)
    /\ pc' = "done"
    /\ UNCHANGED <<chunkVars, vmVars, disVars, arg>>

TakeSplit ==
    /\ pc = "call"
    /\ arg.op = "take_split"
    /\ ret' = take_split(arg.span, arg.count)
    /\ pc' = "done"
    /\ UNCHANGED <<chunkVars, vmVars, disVars, arg>>

SpanNext == Take \/ TakeSplit

SpanSpec ==
    /\ CallInit({a \in SpanCalls : a.count <= Len(a.span.slice) + 1})
    /\ [][SpanNext]_vars

(***************************************************************************)
(* Specifications.                                                         *)
(***************************************************************************)
Next ==
    \/ \E b \in Bytes :
          Len(written) < MaxCode /\ Write(b, LineFor(Len(written) + 1))
    \/ \E v \in Values : Len(added) < MaxConst /\ AddConstant(v)
    \/ \E t \in BOOLEAN : RunStart(t)
    \/ RunStep
    \/ \E n \in Names : DisassembleStart(n)
    \/ ChunkBodyStep

\* The pool grown past the reach of a one-byte operand: the k-th constant
\* added is Int(k), every write is an OP_CONSTANT byte.
PoolNext ==
    \/ Len(written) < MaxCode /\ Write(1, LineFor(Len(written) + 1))
    \/ Len(added) < MaxPool /\ AddConstant(ValueInt(Len(added) + 1))

PoolSpec == Init /\ [][PoolNext]_vars

\* Writes with any of the lines of Lines, for the line table.
LineNext ==
    \E b \in {0, 1}, l \in Lines : Len(written) < MaxCode /\ Write(b, l)

LineSpec == Init /\ [][LineNext]_vars

Spec == Init /\ [][Next]_vars

\* run is a blocking loop: once entered, its iterations are taken.
LiveSpec == Spec /\ WF_vars(RunStep) /\ WF_vars(ChunkBodyStep)


(***************************************************************************)
(* Vocabulary of the properties.                                           *)
(***************************************************************************)
Last(s) == s[Len(s)]

\* The terminal states of run.
Halted  == pc = "returned" /\ result = Ok
Faulted == pc = "returned" /\ result # Ok /\ result[1] = "Err"

\* The opcode the loop is about to decode.
Decoding(op) == pc = "run" /\ OpCodeFrom(byte_at(chunk, ip))[1] = op

\* The opcode the last finished iteration decoded.
LastDecoded == OpCodeFrom(byte_at(chunk, Last(fetched)))

(***************************************************************************)
(* C1: for every chunk, run terminates: every run that has started reaches *)
(* the return, within size() + 1 iterations of the loop, and it returns    *)
(* either Ok (Halted) or an Err (Faulted).                                 *)
(***************************************************************************)
C1_RunTerminates ==
    /\ [](Len(fetched) <= size(chunk) + 1)
    /\ [](pc = "returned" => (Halted \/ Faulted))
    /\ (pc = "run") ~> (Halted \/ Faulted)

\* A run that walked a whole chunk of three constants' worth of bytes and
\* ended past its end.
C1_Witness ==
    /\ pc = "returned"
    /\ Len(fetched) = 4
    /\ size(chunk) = 3
    /\ Faulted

(***************************************************************************)
(* C2 as stated: when run decodes an undefined opcode, it ends Faulted     *)
(* with a CompileError that carries the offending byte and its offset.     *)
(***************************************************************************)
C2_ErrorCarriesByteAndOffset ==
    (pc = "returned" /\ LastDecoded[1] = "Invalid") =>
        result = Err(<<"CompileError",
                       byte_at(chunk, Last(fetched)), Last(fetched)>>)

(***************************************************************************)
(* C2 as amended: when run decodes an undefined opcode, that iteration     *)
(* ends the run with Err(CompileError), the unit variant, which carries    *)
(* neither the byte nor the offset; run on code = [255] returns            *)
(* Err(CompileError).                                                      *)
(***************************************************************************)
C2_InvalidFaultsWithCompileError ==
    /\ [][Decoding("Invalid") =>
            (pc' = "returned" /\ result' = Err(CompileError))]_vars
    /\ []((pc = "returned" /\ chunk.code = <<U8Max>>) =>
            (result = Err(CompileError) /\ fetched = <<0>>))

\* A run faulted on an undefined opcode stored in the code (not the
\* out-of-range sentinel), after it had executed an instruction.
C2_Witness ==
    /\ pc = "returned"
    /\ Len(fetched) >= 2
    /\ Last(fetched) < size(chunk)
    /\ LastDecoded = OpInvalid(U8Max)
    /\ result = Err(CompileError)

(***************************************************************************)
(* C3: a chunk whose code is Constant instructions followed by a Return    *)
(* ends Halted having produced exactly the constants its operands name,    *)
(* in order.  (The code keeps no value stack: the resolved constants are   *)
(* the lines it prints.)                                                   *)
(***************************************************************************)
\* code = (1, operand)* 0
ConstantsThenReturn(code) ==
    /\ Len(code) % 2 = 1
    /\ code[Len(code)] = 0
    /\ \A k \in 1..(Len(code) \div 2) : code[2 * k - 1] = 1

\* The constants the operands of such a chunk name, in order.
NamedConstants(c) ==
    [k \in 1..(Len(c.code) \div 2) |-> const_val(c, c.code[2 * k])]

C3_ConstantsThenReturn ==
    (pc = "returned" /\ ConstantsThenReturn(chunk.code)) =>
        /\ Halted
        /\ stdout = [k \in 1..(Len(chunk.code) \div 2) |->
                        Display(NamedConstants(chunk)[k])]

(***************************************************************************)
(* C4: the iteration that decodes a Return ends the run with Ok, nothing   *)
(* is decoded after the run has returned, and run on code = [0] ends       *)
(* Halted having resolved no constant.                                     *)
(***************************************************************************)
C4_ReturnHalts ==
    /\ [][Decoding("Return") => (pc' = "returned" /\ result' = Ok)]_vars
    /\ [][pc = "returned" =>
            (pc' = "returned" /\ fetched' = fetched /\ stdout' = stdout
               /\ result' = result)]_vars
    /\ []((pc = "returned" /\ chunk.code = <<0>>) =>
            (Halted /\ stdout = << >> /\ fetched = <<0>>))

\* A run that halted on a Return after executing a Constant, with bytes
\* left over after the Return.
C4_Witness ==
    /\ Halted
    /\ Len(fetched) >= 2
    /\ LastDecoded = OpReturn
    /\ Last(fetched) + 1 < size(chunk)


(***************************************************************************)
(* C5: at every instruction offset whose byte is not a defined opcode the  *)
(* disassembler renders "Unknown opcode: {byte}" and the next instruction  *)
(* offset is offset + 1.                                                   *)
(***************************************************************************)
UnknownOpcodeLine(o, b) ==
    <<PadLeft(NatToStr(o), 4, "0") \o " Unknown opcode: " \o NatToStr(b)
        \o "\n",
      o + 1>>

C5_UnknownOpcodeRendered ==
    \A i \in 1..Len(walk) :
        LET o == walk[i]
            b == byte_at(chunk, o)
        IN  b \notin {0, 1} =>
                disassemble_instruction(chunk, o) = UnknownOpcodeLine(o, b)

(***************************************************************************)
(* C6: disassembling terminates with the offset strictly increasing, and   *)
(* the number of rendered instructions equals the number of decode steps   *)
(* that walk code from offset 0 by the declared widths (Return 1,          *)
(* Constant 2, Invalid 1).                                                 *)
(***************************************************************************)
DeclaredWidth(op) == IF op = OpConstant THEN 2 ELSE 1

RECURSIVE DeclaredSteps(_, _)
DeclaredSteps(c, o) ==
    IF o >= size(c) THEN 0
    ELSE 1 + DeclaredSteps(c, o + DeclaredWidth(OpCodeFrom(byte_at(c, o))))

C6_DisassemblyWalk ==
    /\ \A i \in 1..(Len(walk) - 1) : walk[i] < walk[i + 1]
    /\ pc = "chunk_body" => (walk = << >> \/ Last(walk) < offset)
    /\ pc = "disassembled" => Len(walk) = DeclaredSteps(chunk, 0)

(***************************************************************************)
(* C7: disassemble_chunk(Chunk::test(), "test") is the header              *)
(* "== test ==", the line "0000 OP_RETURN", one OP_CONSTANT line at offset *)
(* 0001 with operand 0 and value 32, and nothing more.                     *)
(***************************************************************************)
C7_TestChunkText ==
    (pc = "disassembled" /\ chunk = ChunkTest /\ name = "test") =>
        /\ text = "== test ==\n"
                    \o "0000 OP_RETURN\n"
                    \o "0001 OP_CONSTANT         0 '32'\n"
        /\ walk = <<0, 1>>

\* The disassembly of the unextended test chunk has finished.
C7_Witness ==
    /\ pc = "disassembled"
    /\ origin = "test"
    /\ written = << >>
    /\ added = << >>
    /\ name = "test"
    /\ Len(walk) = 2

(***************************************************************************)
(* C8: in a chunk built by write calls, byte_at(o) is the byte given to    *)
(* the (o+1)-th write when o < size(), and 255 when o >= size().  (A chunk *)
(* made by Chunk::test() starts with the three bytes of its literal.)      *)
(***************************************************************************)
InitialCode ==
    IF origin = "new" THEN ChunkNew.code ELSE ChunkTest.code

ExpectedCode == InitialCode \o written

C8_ByteAt ==
    /\ size(chunk) = Len(ExpectedCode)
    /\ \A o \in 0..(Len(ExpectedCode) + 2) :
          byte_at(chunk, o) =
              IF o < Len(ExpectedCode) THEN ExpectedCode[o + 1] ELSE 255

\* Three different bytes written from Chunk::new(), none of them the
\* sentinel.
C8_Witness ==
    /\ origin = "new"
    /\ written = <<2, 1, 0>>
    /\ byte_at(chunk, 0) = 2
    /\ byte_at(chunk, 3) = 255

(***************************************************************************)
(* C9: the value given to the k-th add_constant is what lookup returns at  *)
(* index k - 1, now and after every later append, also past 256 constants  *)
(* and with writes in between; any index never assigned yields             *)
(* DoesNotExist.  (Chunk::test() starts with one constant in the pool.)    *)
(***************************************************************************)
InitialConstants ==
    IF origin = "new" THEN ChunkNew.constants ELSE ChunkTest.constants

ExpectedConstants == InitialConstants \o added

C9_ConstantLookup ==
    /\ [](\A i \in 0..(Len(ExpectedConstants) + 1) :
            LET v == IF i < Len(ExpectedConstants)
                     THEN ExpectedConstants[i + 1] ELSE DoesNotExist
            IN  /\ get_const(chunk.constants, i) = v
                /\ i <= U8Max => const_val(chunk, i) = v)
    /\ [][\A i \in 0..(Len(chunk.constants) - 1) :
            get_const(chunk'.constants, i) = get_const(chunk.constants, i)]_vars

\* More than 256 constants added, with writes in between, and the constant
\* at index 256 is the 257th one added.
C9_Witness ==
    /\ origin = "new"
    /\ Len(added) > U8Max + 1
    /\ Len(written) >= 2
    /\ get_const(chunk.constants, U8Max + 1) = ValueInt(U8Max + 2)
    /\ const_val(chunk, U8Max) = ValueInt(U8Max + 1)

(***************************************************************************)
(* C10: in every chunk reachable from Chunk::new() or Chunk::test() by     *)
(* write and add_constant calls, code and lines have the same length,      *)
(* whatever the number of constants.                                       *)
(***************************************************************************)
C10_CodeLinesSameLength == Len(chunk.code) = Len(chunk.lines)

\* Chunk::test() extended by two writes and two constants.
C10_Witness ==
    /\ origin = "test"
    /\ Len(written) = 2
    /\ Len(added) = 2
    /\ Len(chunk.lines) = 5
    /\ Len(chunk.constants) = 3


(***************************************************************************)
(* C11: decoding is total over the bytes 0..255: 0 decodes to Return, 1 to *)
(* Constant, and every other byte b to Invalid(b), carrying that byte.     *)
(***************************************************************************)
C11_DecodeTotal ==
    /\ pc = "call" => (arg \in 0..255 /\ ENABLED Decode)
    /\ pc = "done" =>
          ret = CASE arg = 0 -> <<"Return">>
                  [] arg = 1 -> <<"Constant">>
                  [] OTHER   -> <<"Invalid", arg>>

\* The byte 2, the first undefined one, has been decoded.
C11_Witness ==
    /\ pc = "done"
    /\ arg = 2
    /\ ret = <<"Invalid", 2>>


(***************************************************************************)
(* C12 as stated: get_line(offset) is the line recorded with code[offset]  *)
(* in range and 0 out of range, and 0 is returned only for out-of-range    *)
(* offsets.  (Chunk::test() starts with three bytes on line 1.)            *)
(***************************************************************************)
InitialLines ==
    IF origin = "new" THEN ChunkNew.lines ELSE ChunkTest.lines

ExpectedLines == InitialLines \o lined

C12_ZeroOnlyOutOfRange ==
    \A o \in 0..(size(chunk) + 1) :
        /\ o < size(chunk) => get_line(chunk, o) = ExpectedLines[o + 1]
        /\ o >= size(chunk) => get_line(chunk, o) = 0
        /\ get_line(chunk, o) = 0 => o >= size(chunk)

(***************************************************************************)
(* C12 as amended: get_line(offset) is the line recorded with code[offset] *)
(* in range and 0 out of range; write accepts line 0, and then 0 is also   *)
(* what get_line returns for that in-range offset.                         *)
(***************************************************************************)
C12_GetLine ==
    /\ Len(ExpectedLines) = size(chunk)
    /\ \A o \in 0..(size(chunk) + 1) :
          /\ o < size(chunk) => get_line(chunk, o) = ExpectedLines[o + 1]
          /\ o >= size(chunk) => get_line(chunk, o) = 0

\* Three writes on lines 2, 0 and 1: the middle offset is in range and its
\* line is 0.
C12_Witness ==
    /\ origin = "new"
    /\ lined = <<2, 0, 1>>
    /\ get_line(chunk, 0) = 2
    /\ get_line(chunk, 1) = 0
    /\ get_line(chunk, 3) = 0


(***************************************************************************)
(* C13: tracing never affects execution: on every chunk the traced run and *)
(* the untraced run go through the same instruction-pointer values and     *)
(* resolved values and end with the same result.  Both are, iteration by   *)
(* iteration, where the build without tracing is; only stderr differs.     *)
(***************************************************************************)
C13_TracingHasNoEffect ==
    pc \in {"run", "returned"} =>
        /\ [pc |-> pc, ip |-> ip, result |-> result, stdout |-> stdout,
            fetched |-> fetched] = RunAfter(chunk, Len(fetched))
        /\ Len(stderr) = IF trace THEN Len(fetched) ELSE 0

\* A traced run has returned after tracing and executing three
\* instructions, a Constant among them.
C13_Witness ==
    /\ pc = "returned"
    /\ trace
    /\ Len(stderr) = 3
    /\ Len(stdout) >= 1


(***************************************************************************)
(* C14: write(byte, line) appends exactly one entry to code and one to     *)
(* lines and leaves the constant pool and the earlier entries as they      *)
(* were; add_constant(value) appends exactly one value to the pool and     *)
(* leaves code and lines as they were; both always succeed.                *)
(***************************************************************************)
C14_AppendFrames ==
    /\ [][written' # written =>
            chunk' = [code      |-> chunk.code \o <<Last(written')>>,
                      lines     |-> chunk.lines \o <<Last(lined')>>,
                      constants |-> chunk.constants]]_vars
    /\ [][added' # added =>
            chunk' = [code      |-> chunk.code,
                      lines     |-> chunk.lines,
                      constants |-> chunk.constants \o <<Last(added')>>]]_vars
    /\ [](pc = "build" =>
            /\ \A b \in Bytes : ENABLED Write(b, 1)
            /\ \A v \in Values : ENABLED AddConstant(v))

\* Chunk::test() after a write and then an add_constant: the constant was
\* added to a chunk that had code and lines to keep.
C14_Witness ==
    /\ pc = "build"
    /\ origin = "test"
    /\ Len(written) = 1
    /\ Len(added) = 1
    /\ chunk.code = ChunkTest.code \o written
    /\ chunk.constants = ChunkTest.constants \o added


(***************************************************************************)
(* C15: when run executes a Constant whose opcode byte is at offset ip,    *)
(* the next opcode it decodes is at ip + 2: the operand byte at ip + 1 is  *)
(* never decoded as an opcode.                                             *)
(***************************************************************************)
C15_ConstantSkipsOperand ==
    \A i \in 1..(Len(fetched) - 1) :
        OpCodeFrom(byte_at(chunk, fetched[i])) = OpConstant =>
            fetched[i + 1] = fetched[i] + 2

(***************************************************************************)
(* C16: when run executes a Constant whose opcode byte is at offset ip,    *)
(* the value it resolves is the constant at index byte_at(ip + 1).         *)
(***************************************************************************)
C16_OperandFollowsOpcode ==
    [][Decoding("Constant") =>
         stdout' = Append(stdout,
                          Display(const_val(chunk, byte_at(chunk, ip + 1))))
      ]_vars

(***************************************************************************)
(* C17: the offsets at which run decodes an opcode are a prefix of the     *)
(* offsets at which the disassembler renders an instruction.  (Stated for  *)
(* the offsets inside code: a fetch of run at or past the end of code,     *)
(* which the disassembler never renders, is left out.)                     *)
(***************************************************************************)
IsPrefix(s, t) ==
    /\ Len(s) <= Len(t)
    /\ \A i \in 1..Len(s) : s[i] = t[i]

InsideCode(offsets) == SelectSeq(offsets, LAMBDA o : o < size(chunk))

C17_RunFollowsDisassembly ==
    pc = "returned" =>
        IsPrefix(InsideCode(fetched), chunk_body_offsets(chunk, 0))

(***************************************************************************)
(* C18: when run reaches an offset at or past the end of code (the empty   *)
(* chunk included), byte_at yields 255, which decodes to Invalid, and that *)
(* iteration ends the run with Err(CompileError).                          *)
(***************************************************************************)
C18_PastEndFaults ==
    [][(pc = "run" /\ ip >= size(chunk)) =>
          /\ byte_at(chunk, ip) = 255
          /\ OpCodeFrom(byte_at(chunk, ip)) = <<"Invalid", 255>>
          /\ pc' = "returned"
          /\ result' = Err(CompileError)]_vars

\* A run that executed two Constants and then ran off the end of a chunk
\* with no Return in it.
C18_Witness ==
    /\ pc = "returned"
    /\ size(chunk) = 2
    /\ fetched = <<0, 1, 2>>
    /\ Len(stdout) = 2
    /\ result = Err(CompileError)

(***************************************************************************)
(* C19: a Constant whose operand (the byte after the opcode) indexes       *)
(* outside the constant pool does not end the run: the lookup yields       *)
(* DoesNotExist and execution continues.                                   *)
(***************************************************************************)
C19_MissingConstantIsSoft ==
    [][(Decoding("Constant")
          /\ byte_at(chunk, ip + 1) >= Len(chunk.constants)) =>
          /\ pc' = "run"
          /\ result' = Ok
          /\ stdout' = Append(stdout, Display(DoesNotExist))]_vars

(***************************************************************************)
(* Vocabulary of the Span properties.                                      *)
(***************************************************************************)
\* The bytes of s that start a character, hence the characters of s.
CharCount(s) == Cardinality({i \in 1..Len(s) : s[i] \notin 128..191})

\* The first n characters of s, n at most CharCount(s).
FirstChars(s, n) ==
    SubSeq(s, 1, CHOOSE k \in 0..Len(s) :
                    /\ CharCount(SubSeq(s, 1, k)) = n
                    /\ (k < Len(s) => s[k + 1] \notin 128..191))

Newlines(s) == Cardinality({i \in 1..Len(s) : s[i] = 10})

\* The position, from 0, of the last newline of s.
LastNewline(s) ==
    CHOOSE i \in 0..(Len(s) - 1) :
        /\ s[i + 1] = 10
        /\ \A j \in (i + 1)..(Len(s) - 1) : s[j + 1] # 10

\* The position after a prefix that began at (offset, line, column) and is
\* count long.
Advanced(span, prefix, count) ==
    [offset |-> span.offset + count,
     line   |-> span.line + Newlines(prefix),
     column |-> IF Newlines(prefix) = 0 THEN span.column + count
                ELSE count - LastNewline(prefix)]

PositionOf(span) ==
    [offset |-> span.offset, line |-> span.line, column |-> span.column]

(***************************************************************************)
(* C20 as stated: for any count within the slice, counted in characters,   *)
(* take_split(count) returns a prefix span holding the first count         *)
(* characters at the original position and a remainder span at offset +    *)
(* count, line + newlines of the prefix, and column + count with no        *)
(* newline in the prefix, else count minus the position of the last        *)
(* newline; take(count) returns the same prefix span.                      *)
(***************************************************************************)
C20_TakeSplitAnyCount ==
    (pc = "done" /\ arg.count <= CharCount(arg.span.slice)) =>
        LET prefix == [arg.span EXCEPT
                          !.slice = FirstChars(arg.span.slice, arg.count)]
        IN  /\ ret # Panic
            /\ arg.op = "take" => ret[2] = prefix
            /\ arg.op = "take_split" =>
                  /\ ret[2][2] = prefix
                  /\ PositionOf(ret[2][1])
                        = Advanced(arg.span, prefix.slice, arg.count)

(***************************************************************************)
(* C20: for a count that is a byte index within the slice and on a         *)
(* character boundary, take_split(count) returns the remainder and the     *)
(* prefix: the prefix holds the first count bytes at the original offset,  *)
(* line and column; the remainder holds the rest at offset + count, line + *)
(* newlines of the prefix, and column + count with no newline in the       *)
(* prefix, else count minus the position of the last newline in the        *)
(* prefix; take(count) returns the same prefix span.                       *)
(***************************************************************************)
C20_TakeSplit ==
    (/\ pc = "done"
     /\ arg.count <= Len(arg.span.slice)
     /\ (arg.count < Len(arg.span.slice) =>
            arg.span.slice[arg.count + 1] \notin 128..191)) =>
        LET prefix == [arg.span EXCEPT
                          !.slice = SubSeq(arg.span.slice, 1, arg.count)]
            rest   == [i \in 1..(Len(arg.span.slice) - arg.count) |->
                          arg.span.slice[arg.count + i]]
        IN  /\ arg.op = "take" => ret = Returns(prefix)
            /\ arg.op = "take_split" =>
                  /\ ret[1] = "ok"
                  /\ ret[2][2] = prefix
                  /\ ret[2][1].slice = rest
                  /\ PositionOf(ret[2][1])
                        = Advanced(arg.span, prefix.slice, arg.count)

\* A split after "\na" of a span well into its input: the remainder is on
\* the next line, in column 2.
C20_Witness ==
    /\ pc = "done"
    /\ arg = [span  |-> SpanNewAt(<<10, 97, 195, 169>>, 3, 1, 4),
              count |-> 2, op |-> "take_split"]
    /\ ret = Returns(<<SpanNewAt(<<195, 169>>, 5, 2, 2),
                       SpanNewAt(<<10, 97>>, 3, 1, 4)>>)

(***************************************************************************)
(* C21: in every reachable state of run the instruction pointer never      *)
(* decreases and never exceeds size() + 1, so run performs at most         *)
(* size() + 1 decode steps on any chunk, and run never returns             *)
(* RuntimeError.                                                           *)
(***************************************************************************)
C21_IpMonotoneAndBounded ==
    /\ [][ip' >= ip]_vars
    /\ [](pc \in {"run", "returned"} =>
             /\ ip <= size(chunk) + 1
             /\ Len(fetched) = ip
             /\ \A i \in 1..Len(fetched) : fetched[i] = i - 1
             /\ result # Err(RuntimeError))

\* A run over three Constant bytes: it decoded each of them and the sentinel
\* past the end, and returned with the instruction pointer at size() + 1.
C21_Witness ==
    /\ pc = "returned"
    /\ chunk.code = <<1, 1, 1>>
    /\ ip = size(chunk) + 1
    /\ fetched = <<0, 1, 2, 3>>
    /\ result = Err(CompileError)

====
